---- MODULE Spec2Model ----
(***************************************************************************)
(* State-machine model of the scheduled-message bot (src/main.py):         *)
(*   - GeminiService.generate_content, a coroutine with its own program    *)
(*     counter gpc (one step per awaited HTTP attempt / backoff sleep);    *)
(*   - ScheduledMessageBot: on_ready, on_message, the tasks.loop body      *)
(*     send_scheduled_message (one step up to its first await, one step    *)
(*     per await after it) and the slash commands.                         *)
(* Time is the value time.time() returns, observed on a sparse grid.       *)
(***************************************************************************)
EXTENDS Integers, Sequences, FiniteSets, TLC

\* ---------------------------------------------------------------- bounds
MaxElapsedHours == 1
MaxIntervalHours == 1
StartTime == 36000

\* ------------------------------------------------------ program constants
SecondsPerHour == 3600
LoopSeconds == 60
MaxAttempts == 3
BackoffBase == 2

\* Python's None, for the Optional[str] fields and the task handle.
None == "None"
\* Python's None for the Optional[int] fields channel_id and interval_seconds
\* (no command stores 0 in either: channel ids are snowflakes, hours >= 1).
NoneInt == 0
\* target_channel in a tick that returned before l.150 assigned it.
Unbound == -1

\* ----------------------------------------------------------- input domains
\* The clock is observed at whole hours after the start and one loop period
\* after each of them.
Offsets == {0, 60}
Times == {StartTime + h * SecondsPerHour + o : h \in 0..MaxElapsedHours, o \in Offsets}
Channels == {1, 2}
Hours == 0..MaxIntervalHours
Messages == {"hello"}
Prompts == {"announce"}
Texts == {"generated"}
Bodies == {"body"}
OtherStatuses == {404, 500}
Authors == {"human", "self", "bot"}
SendOutcomes == {"ok", "Forbidden", "Exception"}

VARIABLES
    now,                         \* time.time()
    api_key,                     \* GEMINI_API_KEY / GeminiService.api_key
    scheduled_task,              \* self.scheduled_task
    interval_seconds,            \* self.interval_seconds
    channel_id,                  \* self.channel_id
    message_content,             \* self.message_content
    ai_prompt,                   \* self.ai_prompt
    mode,                        \* self.mode
    last_bot_send_time,          \* self.last_bot_send_time
    last_channel_activity_time,  \* self.last_channel_activity_time
    pc,                          \* position of the tasks.loop coroutine
    next_iteration,              \* earliest time of the loop's next iteration
    target_channel,              \* local of send_scheduled_message
    message_to_send,             \* local of send_scheduled_message
    send_result,                 \* outcome of the last target_channel.send
    gpc,                         \* position inside generate_content
    prompt,                      \* generate_content's argument
    i,                           \* generate_content's loop index
    response,                    \* outcome of the latest session.post attempt
    attempts,                    \* session.post calls made by this call
    sleeps,                      \* asyncio.sleep delays of this call, in order
    returned,                    \* generate_content's return value
    interaction,                 \* the slash-command interaction being handled
    message                      \* the discord.Message on_message was last seen handling

botvars == <<scheduled_task, interval_seconds, channel_id, message_content,
             ai_prompt, mode, last_bot_send_time, last_channel_activity_time>>
loopvars == <<pc, next_iteration, target_channel, message_to_send, send_result>>
genvars == <<gpc, prompt, i, response, attempts, sleeps, returned>>
vars == <<now, api_key, botvars, loopvars, genvars, interaction, message>>

RECURSIVE Pow(_, _)
Pow(b, e) == IF e = 0 THEN 1 ELSE b * Pow(b, e - 1)

\* ------------------------------------------------------------ HTTP outcomes
NoTextField == "<no text field>"
EmptyCandidates == "<candidates: []>"
Response(s, b) == [kind |-> "response", status |-> s, body |-> b]
Raised(c, m) == [kind |-> c, status |-> 0, body |-> m]
Outcomes ==
    {Response(200, b) : b \in Texts \cup {NoTextField, EmptyCandidates}}
    \cup {Response(429, b) : b \in Bodies}
    \cup {Response(s, b) : s \in OtherStatuses, b \in Bodies}
    \cup {Raised("ClientConnectorError", "Cannot connect to host"),
          Raised("TimeoutError", "")}
NoResponse == Raised(None, None)

\* ------------------------------------------------- GeminiService (l.30-81)
MissingKeyError == "Error: Gemini API key is missing. Cannot generate content."
ParseFailure == "Failed to parse AI response."
RetriesExhausted == "AI API failed after multiple retries due to rate limiting or server issues."
ApiError(status, error_text) == "AI API Error (" \o ToString(status) \o "): " \o error_text
NetworkError(e) == "Network or API communication error: " \o e
UnexpectedError(e) == "An unexpected error occurred during AI generation: " \o e

\* result.get('candidates', [{}])[0].get('content', {}).get('parts', [{}])[0].get('text', default)
\* on the parsed JSON body: the text when the path is there, the default when a
\* key of the path is absent; an empty list on the path raises IndexError
\* (handled in post_response).
ParsedText(body) == IF body = NoTextField THEN ParseFailure ELSE body

\* return <value> inside generate_content
Return(value) ==
    /\ returned' = value
    /\ gpc' = "done"

\* An exception no except clause catches leaves generate_content.
Propagate ==
    /\ returned' = None
    /\ gpc' = "raised"

\* except aiohttp.ClientError (l.78): aiohttp's own exception classes.
IsClientError(exc) == exc \in {"ClientConnectorError"}

IsException_Narrow(exc) == exc \in {"ClientConnectorError", "TimeoutError"}

\* except Exception (l.80): TimeoutError and IndexError derive from it, as
\* does every class an attempt raises here.
IsException(exc) == exc \in {"ClientConnectorError", "TimeoutError", "IndexError"}

\* The except clauses of l.78-81, in order.
Except(exc, e) ==
    IF IsClientError(exc) THEN Return(NetworkError(e))
    ELSE IF IsException(exc) THEN Return(UnexpectedError(e))
    ELSE Propagate

\* Entry of generate_content up to the first await (l.42-64).
generate_content(p) ==
    /\ prompt' = p
    /\ i' = 0
    /\ response' = NoResponse
    /\ attempts' = 0
    /\ sleeps' = <<>>
    /\ IF api_key = ""
       THEN Return(MissingKeyError)
       ELSE /\ gpc' = "post"
            /\ returned' = None

\* delay = 2 ** i
BackoffDelay(n) == Pow(BackoffBase, n)

HasNextAttempt_OneMore(n) == n < MaxAttempts

\* Whether the for loop has another iteration after index n (range(3)).
HasNextAttempt(n) == n + 1 < MaxAttempts

RateLimited_ServerErrors(status) == status = 429 \/ status >= 500

\* elif response.status == 429 (l.69)
RateLimited(status) == status = 429

Retries_Transport(o) ==
    \/ o.kind = "response" /\ o.status # 200 /\ RateLimited(o.status)
    \/ o.kind = "ClientConnectorError"

\* The one outcome of an attempt after which the for loop goes on: the
\* rate-limited branch (l.69-73); every other branch returns.
Retries(o) == o.kind = "response" /\ o.status # 200 /\ RateLimited(o.status)

\* One session.post attempt completes (l.64-81): the status branches, and the
\* except clauses for whatever the attempt raised.
post_response ==
    /\ gpc = "post"
    /\ \E o \in Outcomes :
        /\ response' = o
        /\ attempts' = attempts + 1
        /\ IF Retries(o)
           THEN /\ sleeps' = Append(sleeps, BackoffDelay(i))
                /\ gpc' = "backoff"
                /\ UNCHANGED returned
           ELSE /\ UNCHANGED sleeps
                /\ IF o.kind # "response"
                   THEN Except(o.kind, o.body)
                   ELSE IF o.status = 200
                   THEN IF o.body = EmptyCandidates
                        THEN Except("IndexError", "list index out of range")
                        ELSE Return(ParsedText(o.body))
                   ELSE Return(ApiError(o.status, o.body))
    /\ UNCHANGED <<prompt, i>>
    /\ UNCHANGED <<now, api_key, botvars, loopvars, interaction, message>>

\* asyncio.sleep(delay) returns: next iteration of the for loop, or fall out
\* of it to the return of l.77.
backoff_done ==
    /\ gpc = "backoff"
    /\ IF HasNextAttempt(i)
       THEN /\ i' = i + 1
            /\ gpc' = "post"
            /\ UNCHANGED returned
       ELSE /\ Return(RetriesExhausted)
            /\ UNCHANGED i
    /\ UNCHANGED <<prompt, response, attempts, sleeps>>
    /\ UNCHANGED <<now, api_key, botvars, loopvars, interaction, message>>

\* Wall-clock time passes (between events and during every await).
Advance ==
    /\ \E t \in Times : t > now /\ now' = t
    /\ UNCHANGED <<api_key, botvars, loopvars, genvars, interaction, message>>

\* ------------------------------------------- ScheduledMessageBot (l.86-208)
MissingKeyNotice == "Automatic message generation failed: API Key missing."
ValidationError == "The interval must be 1 hour or more."

NoMessage == [author |-> None, channel |-> NoneInt]

NoInteraction == [name |-> None, message |-> None, interval_hours |-> 0,
                  channel_id |-> NoneInt, status |-> None]

BotInit ==
    /\ scheduled_task = None
    /\ interval_seconds = NoneInt
    /\ channel_id = NoneInt
    /\ message_content = None
    /\ ai_prompt = None
    /\ mode = None
    /\ last_bot_send_time = 0
    /\ last_channel_activity_time = now
    /\ pc = "stopped"
    /\ next_iteration = 0
    /\ target_channel = Unbound
    /\ message_to_send = None
    /\ send_result = None
    /\ interaction = NoInteraction
    /\ message = NoMessage

GenIdle ==
    /\ gpc = "idle"
    /\ prompt = None
    /\ i = 0
    /\ response = NoResponse
    /\ attempts = 0
    /\ sleeps = <<>>
    /\ returned = None

Init ==
    /\ now = StartTime
    /\ api_key \in {"", "key"}
    /\ BotInit
    /\ GenIdle

\* send_scheduled_message.start(): discord.ext.tasks.Loop.start creates the
\* asyncio.Task running the loop and returns it; the first iteration is due
\* at once.
LoopStart ==
    /\ scheduled_task' = "Task"
    /\ pc' = "sleep"
    /\ next_iteration' = now

\* on_ready (l.107-116).  Once a start() has stored its asyncio.Task in
\* scheduled_task, scheduled_task.is_running() raises AttributeError (Task
\* has no such method; is_running belongs to the Loop object): the handler
\* ends there and the state is unchanged.
on_ready ==
    /\ IF scheduled_task = None
       THEN LoopStart
       ELSE UNCHANGED <<scheduled_task, pc, next_iteration>>
    /\ UNCHANGED <<interval_seconds, channel_id, message_content, ai_prompt, mode,
                   last_bot_send_time, last_channel_activity_time>>
    /\ UNCHANGED <<target_channel, message_to_send, send_result>>
    /\ UNCHANGED <<now, api_key, genvars, interaction, message>>

IgnoredAuthor_SelfOnly(author) == author = "self"

\* The conditions of on_message (l.122 and l.126).
IgnoredAuthor(author) == author = "self" \/ author = "bot"
TrackedChannel(c) == channel_id # NoneInt /\ c = channel_id

\* The body of on_message for a message by this author in this channel.
OnMessage(author, c) ==
    /\ IF IgnoredAuthor(author)
       THEN UNCHANGED last_channel_activity_time
       ELSE IF TrackedChannel(c)
       THEN last_channel_activity_time' = now
       ELSE UNCHANGED last_channel_activity_time
    /\ UNCHANGED <<scheduled_task, interval_seconds, channel_id, message_content,
                   ai_prompt, mode, last_bot_send_time>>
    /\ UNCHANGED <<now, api_key, loopvars, genvars, interaction>>

on_message ==
    /\ \E author \in Authors, c \in Channels : OnMessage(author, c)
    /\ UNCHANGED message

\* The three guards of the tick (l.133, l.137-138, l.144).
NotConfigured == channel_id = NoneInt \/ interval_seconds = NoneInt

IntervalNotElapsed_LoopPeriod == now - last_bot_send_time < LoopSeconds

IntervalNotElapsed == now - last_bot_send_time < interval_seconds

ChannelQuiet_Strict == last_channel_activity_time < last_bot_send_time

ChannelQuiet_Grace ==
    last_channel_activity_time <= last_bot_send_time + interval_seconds

ChannelQuiet == last_channel_activity_time <= last_bot_send_time

UsesGeneration_Never == FALSE

\* self.mode == 'automatic' and self.ai_prompt   (l.158; "" and None are falsy)
UsesGeneration == mode = "automatic" /\ ai_prompt # None /\ ai_prompt # ""

\* send_scheduled_message returns: the loop sleeps until the next iteration.
\* target_channel keeps what this tick's get_channel gave, for the log.
TickReturns ==
    /\ pc' = "sleep"
    /\ message_to_send' = None

\* One iteration of the tasks.loop body, from its start to its first await
\* (l.133-168).  The guards, get_channel and the reads of the configuration
\* all happen in this one step: there is no await between them.
send_scheduled_message ==
    /\ pc = "sleep"
    /\ now >= next_iteration
    /\ next_iteration' = now + LoopSeconds
    /\ IF NotConfigured \/ IntervalNotElapsed \/ ChannelQuiet
       THEN TickReturns /\ target_channel' = Unbound /\ UNCHANGED genvars
       ELSE \E found \in BOOLEAN :
            IF ~found
            THEN TickReturns /\ target_channel' = NoneInt /\ UNCHANGED genvars
            ELSE /\ target_channel' = channel_id
                 /\ IF UsesGeneration
                    THEN IF api_key = ""
                         THEN /\ message_to_send' = MissingKeyNotice
                              /\ pc' = "send"
                              /\ UNCHANGED genvars
                         ELSE /\ message_to_send' = message_content
                              /\ generate_content(ai_prompt)
                              /\ pc' = "generate"
                    ELSE /\ message_to_send' = message_content
                         /\ pc' = "send"
                         /\ UNCHANGED genvars
    /\ UNCHANGED <<now, api_key, botvars, send_result, interaction, message>>

SendTarget_Reread == channel_id

\* The channel the send of l.168 is called on: the local bound at l.150,
\* whatever self.channel_id has become during the await of l.164.
SendTarget == target_channel

\* The await of l.164 completes: the value generate_content returned becomes
\* the message, and the tick goes on to the send of l.168.
generate_return ==
    /\ pc = "generate"
    /\ gpc = "done"
    /\ message_to_send' = returned
    /\ pc' = "send"
    /\ gpc' = "idle"
    /\ prompt' = None
    /\ i' = 0
    /\ response' = NoResponse
    /\ attempts' = 0
    /\ sleeps' = <<>>
    /\ returned' = None
    /\ target_channel' = SendTarget
    /\ UNCHANGED <<now, api_key, botvars, next_iteration, send_result,
                   interaction, message>>

\* discord refuses a message without content: send(None) and send("") raise.
Sendable(text) == text # None /\ text # ""

\* The send awaited at l.168 finishes, with a result or an exception.
send_completes ==
    /\ pc = "send"
    /\ \E r \in SendOutcomes :
        /\ r = "ok" => Sendable(message_to_send)
        /\ send_result' = r
    /\ pc' = "resume"
    /\ UNCHANGED <<now, api_key, botvars, next_iteration, target_channel,
                   message_to_send, genvars, interaction, message>>

StampAfter_Always(result) == now

StampAfter_ResetOnFailure(result) == IF result = "ok" THEN now ELSE 0

StampAfter_Forbidden(result) ==
    IF result \in {"ok", "Forbidden"} THEN now ELSE last_bot_send_time

\* last_bot_send_time after the try statement of l.167-175.
StampAfter(result) == IF result = "ok" THEN now ELSE last_bot_send_time

Handled_ForbiddenOnly(result) == result \in {"ok", "Forbidden"}

\* Whether the try statement of l.167-175 ends without an exception leaving
\* it: except discord.Forbidden (l.172) and except Exception (l.174) catch
\* whatever the send raised.  An exception that left the tick would end the
\* tasks.loop.
Handled(result) == result \in {"ok", "Forbidden", "Exception"}

\* The tick resumes after the await (l.169-175): only a successful send
\* stamps last_bot_send_time; both except clauses only print.
send_done ==
    /\ pc = "resume"
    /\ last_bot_send_time' = StampAfter(send_result)
    /\ send_result' = None
    /\ IF Handled(send_result)
       THEN TickReturns
       ELSE pc' = "stopped" /\ message_to_send' = None
    /\ UNCHANGED target_channel
    /\ UNCHANGED <<scheduled_task, interval_seconds, channel_id, message_content,
                   ai_prompt, mode, last_channel_activity_time>>
    /\ UNCHANGED <<now, api_key, next_iteration, genvars, interaction, message>>

\* A slash command arrives and its handler runs to the end of the await of
\* interaction.response.defer (l.185).
Texts_of(name) == IF name = "manual" THEN Messages ELSE Prompts

command_invoked ==
    /\ interaction.status # "deferred"
    /\ \E name \in {"manual", "automatic"}, h \in Hours, c \in Channels :
        \E text \in Texts_of(name) :
            interaction' = [name |-> name, message |-> text, interval_hours |-> h,
                            channel_id |-> c, status |-> "deferred"]
    /\ UNCHANGED <<now, api_key, botvars, loopvars, genvars, message>>

\* The handler ends with this outcome: the follow-up it sent, or the
\* exception that ended it.
Finish(outcome) ==
    interaction' = [NoInteraction EXCEPT !.name = interaction.name, !.status = outcome]

\* interval_seconds = interval_hours * 3600
ToSeconds(interval_hours) == interval_hours * SecondsPerHour

IntervalRejected_Negative(interval_hours) == interval_hours < 0

\* if interval_hours < 1 (l.187)
IntervalRejected(interval_hours) == interval_hours < 1

TaskCheckRaises_Never == FALSE

\* self.scheduled_task is not None and self.scheduled_task.is_running()
\* (l.195): with an asyncio.Task stored, the second operand raises
\* AttributeError; with None the condition is false and nothing is raised.
TaskCheckRaises == scheduled_task # None

\* manual, after the defer (l.187-208).  With a Task stored in
\* scheduled_task, l.195 raises AttributeError before any assignment.
manual ==
    /\ interaction.name = "manual"
    /\ interaction.status = "deferred"
    /\ IF IntervalRejected(interaction.interval_hours)
       THEN /\ Finish("rejected")
            /\ UNCHANGED <<botvars, pc, next_iteration>>
       ELSE IF TaskCheckRaises
       THEN /\ Finish("AttributeError")
            /\ UNCHANGED <<botvars, pc, next_iteration>>
       ELSE /\ mode' = "manual"
            /\ message_content' = interaction.message
            /\ ai_prompt' = None
            /\ interval_seconds' = ToSeconds(interaction.interval_hours)
            /\ channel_id' = interaction.channel_id
            /\ last_bot_send_time' = 0
            /\ last_channel_activity_time' = now
            /\ LoopStart
            /\ Finish("set")
    /\ UNCHANGED <<target_channel, message_to_send, send_result>>
    /\ UNCHANGED <<now, api_key, genvars, message>>

\* automatic, after the defer: the second configuration command.  Its code
\* is not part of the source at hand; this is its contract (validation,
\* wholesale replacement, timer reset, idempotent start of the loop).
automatic ==
    /\ interaction.name = "automatic"
    /\ interaction.status = "deferred"
    /\ IF interaction.interval_hours < 1
       THEN /\ Finish("rejected")
            /\ UNCHANGED <<botvars, pc, next_iteration>>
       ELSE /\ mode' = "automatic"
            /\ message_content' = None
            /\ ai_prompt' = interaction.message
            /\ interval_seconds' = ToSeconds(interaction.interval_hours)
            /\ channel_id' = interaction.channel_id
            /\ last_bot_send_time' = 0
            /\ last_channel_activity_time' = now
            /\ IF pc = "stopped"
               THEN LoopStart
               ELSE UNCHANGED <<scheduled_task, pc, next_iteration>>
            /\ Finish("set")
    /\ UNCHANGED <<target_channel, message_to_send, send_result>>
    /\ UNCHANGED <<now, api_key, genvars, message>>

Next ==
    \/ Advance
    \/ on_ready
    \/ on_message
    \/ command_invoked
    \/ manual
    \/ automatic
    \/ send_scheduled_message
    \/ post_response
    \/ backoff_done
    \/ generate_return
    \/ send_completes
    \/ send_done

Spec == Init /\ [][Next]_vars

\* ------------------------------------------ on_message seen with its event
\* on_message again, keeping the message it was called with: the handlers
\* that write what on_message reads, and the message events.
on_message_called ==
    \E author \in Authors, c \in Channels :
        /\ message' = [author |-> author, channel |-> c]
        /\ OnMessage(author, c)

MsgNext ==
    \/ Advance
    \/ on_ready
    \/ command_invoked
    \/ manual
    \/ automatic
    \/ on_message_called

MsgSpec == Init /\ [][MsgNext]_vars

\* ------------------------------------ generate_content called on its own
generate_direct ==
    /\ gpc = "idle"
    /\ \E p \in Prompts : generate_content(p)
    /\ UNCHANGED <<now, api_key, botvars, loopvars, interaction, message>>

GenNext ==
    \/ Advance
    \/ generate_direct
    \/ post_response
    \/ backoff_done

GenSpec == Init /\ [][GenNext]_vars

FairGenSpec == GenSpec /\ WF_vars(post_response) /\ WF_vars(backoff_done)

\* ================================================================ claims
\* Steps named by the claims below.
TickStep == pc = "sleep" /\ next_iteration' # next_iteration
Fires == pc = "sleep" /\ pc' \in {"generate", "send"}
SendSucceeds == pc = "resume" /\ send_result = "ok" /\ pc' = "sleep"
CommandEnds == interaction.status = "deferred" /\ interaction'.status # "deferred"
Reconfigured == CommandEnds /\ interaction'.status = "set"

\* C1: anti-stacking gate.  In every state where last_channel_activity_time
\* <= last_bot_send_time while the loop is between ticks, no step (so no tick,
\* however much time has elapsed) dispatches a send or starts a generation
\* call; this holds in every such state, hence on every later tick until
\* activity or a reconfiguration changes the two timestamps.
C1_AntiStacking ==
    [][(pc = "sleep" /\ last_channel_activity_time <= last_bot_send_time)
        => (pc' = "sleep" /\ gpc' = "idle")]_vars

\* A due tick has just been evaluated on a quiet channel and did nothing.
C1_Witness ==
    /\ pc = "sleep"
    /\ channel_id # NoneInt
    /\ now - last_bot_send_time >= interval_seconds
    /\ last_channel_activity_time <= last_bot_send_time
    /\ next_iteration = now + LoopSeconds
    /\ target_channel = Unbound

\* C2: interval gate.  In every configured state where now - last_bot_send_time
\* < interval_seconds while the loop is between ticks, no step dispatches a
\* send or starts a generation call, whatever last_channel_activity_time is.
C2_IntervalGate ==
    [][(pc = "sleep" /\ interval_seconds # NoneInt
        /\ now - last_bot_send_time < interval_seconds)
        => (pc' = "sleep" /\ gpc' = "idle")]_vars

\* A tick has just been evaluated before the interval elapsed, with fresh
\* activity on record, and did nothing.
C2_Witness ==
    /\ pc = "sleep"
    /\ channel_id # NoneInt
    /\ last_bot_send_time > 0
    /\ now - last_bot_send_time < interval_seconds
    /\ last_channel_activity_time > last_bot_send_time
    /\ next_iteration = now + LoopSeconds
    /\ target_channel = Unbound

\* C3: a successful send sets last_bot_send_time to the time of the send;
\* last_bot_send_time then changes only by another successful send or a
\* reconfiguration; and a tick fires only when now - last_bot_send_time >=
\* interval_seconds and an activity stamped strictly after last_bot_send_time
\* is on record (activity is always stamped with the current time).
C3_AfterSend ==
    [][/\ SendSucceeds => last_bot_send_time' = now
       /\ last_bot_send_time' # last_bot_send_time => (SendSucceeds \/ Reconfigured)
       /\ last_channel_activity_time' # last_channel_activity_time
            => last_channel_activity_time' = now
       /\ Fires => /\ now - last_bot_send_time >= interval_seconds
                   /\ last_channel_activity_time > last_bot_send_time]_vars

\* A second send of the same schedule is in flight: the interval elapsed
\* again and activity arrived after the first send.
C3_Witness ==
    /\ pc = "send"
    /\ last_bot_send_time > 0
    /\ now - last_bot_send_time >= interval_seconds
    /\ last_channel_activity_time > last_bot_send_time

\* C4: every configuration command with interval_hours >= 1 leaves
\* last_bot_send_time = 0 and last_channel_activity_time = the time of the
\* command, so that the next tick passes the interval check and the activity
\* check, from any prior state.
C4_ReconfigurationResets ==
    [][(CommandEnds /\ interaction.interval_hours >= 1)
        => /\ last_bot_send_time' = 0
           /\ last_channel_activity_time' = now
           /\ now - last_bot_send_time' >= interval_seconds'
           /\ last_channel_activity_time' > last_bot_send_time']_vars

\* C5: a configuration command with interval_hours < 1 is answered with the
\* validation error and changes no field of the schedule, neither timestamp,
\* and not the running/stopped status of the loop.
C5_RejectedChangesNothing ==
    [][(CommandEnds /\ interaction.interval_hours < 1)
        => /\ interaction'.status = "rejected"
           /\ UNCHANGED <<mode, message_content, ai_prompt, interval_seconds,
                          channel_id, last_bot_send_time,
                          last_channel_activity_time>>
           /\ UNCHANGED <<scheduled_task, pc, next_iteration>>]_vars

\* A manual command was rejected while a schedule is configured.
C5_Witness ==
    /\ interaction.name = "manual"
    /\ interaction.status = "rejected"
    /\ channel_id # NoneInt
    /\ pc # "stopped"

\* C6: the delays slept are 1, 2, 4 in this order, one after each
\* rate-limited attempt; there is never a fourth attempt; and a call whose
\* every attempt was answered 429 ends after exactly three attempts with the
\* 'failed after multiple retries' string.
C6_Backoff ==
    /\ attempts <= 3
    /\ Len(sleeps) <= attempts
    /\ sleeps = SubSeq(<<1, 2, 4>>, 1, Len(sleeps))
    /\ (gpc = "done" /\ attempts > 0 /\ Len(sleeps) = attempts)
         => (attempts = 3 /\ returned = RetriesExhausted)
    /\ returned = RetriesExhausted => sleeps = <<1, 2, 4>>

\* Three attempts, all rate limited, and the call has returned.
C6_Witness ==
    /\ gpc = "done"
    /\ attempts = 3
    /\ sleeps = <<1, 2, 4>>
    /\ returned = RetriesExhausted

\* C7: an attempt answered with a status other than 200 and 429 ends the
\* call at once: the call has returned the error string with that status
\* code in it, and no backoff sleep followed the attempt, whichever attempt
\* it was.
C7_OtherStatus ==
    (response.kind = "response" /\ response.status \notin {200, 429})
        => /\ gpc = "done"
           /\ returned = "AI API Error (" \o ToString(response.status) \o "): "
                            \o response.body
           /\ Len(sleeps) = attempts - 1

\* A 500 on the second attempt, after one rate-limited attempt.
C7_Witness ==
    /\ gpc = "done"
    /\ response.status = 500
    /\ attempts = 2
    /\ sleeps = <<1>>

\* C8: in a configured state where the interval has elapsed, a recorded
\* activity opens the gate (it is stamped strictly after last_bot_send_time),
\* and the tick evaluated with the gate open either finds no channel or goes
\* to Firing: it dispatches the send, directly or after the generation call,
\* which can only end in the send.  With the gate closed the tick does
\* nothing.
C8_FiresAfterActivity ==
    [][/\ (interval_seconds # NoneInt
           /\ now - last_bot_send_time >= interval_seconds
           /\ last_channel_activity_time' # last_channel_activity_time)
            => last_channel_activity_time' > last_bot_send_time'
       /\ (TickStep /\ channel_id # NoneInt /\ interval_seconds # NoneInt
           /\ now - last_bot_send_time >= interval_seconds)
            => IF last_channel_activity_time > last_bot_send_time
               THEN \/ target_channel' = NoneInt /\ pc' = "sleep"
                    \/ target_channel' = channel_id /\ pc' = "send"
                    \/ target_channel' = channel_id /\ pc' = "generate"
                         /\ gpc' = "post"
               ELSE target_channel' = Unbound /\ pc' = "sleep"
       /\ (pc = "generate" /\ pc' # "generate") => pc' = "send"]_vars

\* A send is in flight that was suppressed at its due time: the activity
\* that released it came after the interval had already elapsed.
C8_Witness ==
    /\ pc = "send"
    /\ last_bot_send_time > 0
    /\ last_channel_activity_time > last_bot_send_time + interval_seconds

\* C9: generate_content makes at most three attempts, never leaves by an
\* exception, has a string to return whenever it ends, and every call that
\* started an attempt ends.
C9_Total ==
    /\ [](attempts <= 3 /\ gpc # "raised" /\ (gpc = "done" => returned # None))
    /\ (gpc \in {"post", "backoff"}) ~> (gpc = "done")

\* The third attempt got a 200 whose body made the parse raise, and the call
\* still returned a string.
C9_Witness ==
    /\ gpc = "done"
    /\ attempts = 3
    /\ response.body = EmptyCandidates
    /\ returned = "An unexpected error occurred during AI generation: list index out of range"

\* C10: an attempt that raised (timeout, connection error) ends the call at
\* once with an error string; a call goes on to a backoff or to another
\* attempt only after a 429 response.
C10_TransportFailure ==
    /\ (response.kind \notin {None, "response"})
         => /\ gpc = "done"
            /\ returned \in {"Network or API communication error: " \o response.body,
                             "An unexpected error occurred during AI generation: "
                                \o response.body}
            /\ Len(sleeps) = attempts - 1
    /\ (gpc \in {"post", "backoff"} /\ attempts > 0)
         => (response.kind = "response" /\ response.status = 429)

\* A connection error on the third attempt, after two rate-limited ones.
C10_Witness ==
    /\ gpc = "done"
    /\ response.kind = "ClientConnectorError"
    /\ attempts = 3
    /\ sleeps = <<1, 2>>

\* The start time of the latest tick, and the state a tick leaves behind
\* when it found its channel, went to the send and came back without
\* stamping last_bot_send_time: its send failed.
LastTickStart == next_iteration - LoopSeconds
SendJustFailed ==
    /\ pc = "sleep"
    /\ target_channel \in Channels
    /\ last_bot_send_time > 0
    /\ last_bot_send_time < LastTickStart

\* C11: no step of the loop changes a field of the schedule or the activity
\* time, and last_bot_send_time changes in a step of the loop only when the
\* tick resumes from a send that succeeded: the no-op ticks, the tick that
\* finds no channel and the ticks whose send raised leave it as it was.
C11_OnlySuccessStamps ==
    [][(pc # "stopped" /\ (pc' # pc \/ next_iteration' # next_iteration))
        => /\ UNCHANGED <<interval_seconds, channel_id, message_content,
                          ai_prompt, mode, last_channel_activity_time>>
           /\ ~(pc = "resume" /\ send_result = "ok") => UNCHANGED last_bot_send_time
           /\ (pc = "resume" /\ send_result = "ok") => last_bot_send_time' = now]_vars

\* A tick ran at the current time, sent to its channel, and the schedule is
\* as due as before: the send failed and nothing was stamped.
C11_Witness ==
    /\ SendJustFailed
    /\ next_iteration = now + LoopSeconds
    /\ now - last_bot_send_time >= interval_seconds
    /\ last_channel_activity_time > last_bot_send_time

\* C12 as stated: after a failed send, no tick attempts a send before a full
\* interval_seconds has passed since the failed attempt.
C12_NoRetryWithinInterval ==
    [][(SendJustFailed /\ now - LastTickStart < interval_seconds)
        => pc' = "sleep"]_vars

\* C12 as amended: a failed send leaves last_bot_send_time unchanged and the
\* schedule still due with activity on record, so the next tick, one loop
\* period later, attempts the send again unless it finds no channel.
C12_RetriesNextTick ==
    [][/\ (pc = "resume" /\ send_result # "ok" /\ pc' = "sleep")
            => /\ UNCHANGED last_bot_send_time
               /\ now - last_bot_send_time' >= interval_seconds'
               /\ last_channel_activity_time' > last_bot_send_time'
       /\ (SendJustFailed /\ TickStep /\ last_channel_activity_time > last_bot_send_time)
            => \/ target_channel' = NoneInt /\ pc' = "sleep"
               \/ target_channel' = channel_id /\ pc' \in {"send", "generate"}]_vars

\* A send failed, the next iteration of the loop is due, and less than an
\* interval has passed since the failed tick.
C12_Witness ==
    /\ SendJustFailed
    /\ now >= next_iteration
    /\ now - LastTickStart < interval_seconds
    /\ last_channel_activity_time > last_bot_send_time

C15_NotInterrupted ==
    [][(CommandEnds /\ interaction.interval_hours >= 1
        /\ pc \in {"generate", "send", "resume"})
        => /\ UNCHANGED <<pc, target_channel, message_to_send, send_result,
                          gpc, prompt, returned>>
           /\ mode' = interaction.name
           /\ channel_id' = interaction.channel_id
           /\ interval_seconds' = interaction.interval_hours * 3600
           /\ interaction.name = "manual"
                => (message_content' = interaction.message /\ ai_prompt' = None)
           /\ interaction.name = "automatic"
                => (ai_prompt' = interaction.message /\ message_content' = None)]_vars

\* C16: the generation call never leaves by an exception, and a tick waiting
\* for it always has an attempt, a backoff sleep or the return to go on
\* with; every iteration of the loop schedules the next one a loop period
\* later and either returns or goes to the generation call or the send; a
\* tick that resumes from its send, whatever the send's outcome, returns to
\* the loop's sleep with the next iteration still scheduled; and no step
\* stops a running loop.
C16_LoopSurvives ==
    /\ [](gpc # "raised")
    /\ [](pc = "generate" => gpc \in {"post", "backoff", "done"})
    /\ [](pc = "resume" => send_result \in {"ok", "Forbidden", "Exception"})
    /\ [][/\ TickStep
               => /\ next_iteration' = now + 60
                  /\ pc' \in {"sleep", "generate", "send"}
          /\ (pc = "resume" /\ pc' # "resume")
               => /\ pc' = "sleep"
                  /\ next_iteration' = next_iteration
                  /\ scheduled_task' = "Task"
          /\ pc # "stopped" => pc' # "stopped"]_vars

\* The latest tick of an automatic schedule went through its generation
\* call and its send, the send raised, and the tick has returned with the
\* next iteration scheduled.
C16_Witness ==
    /\ pc = "sleep"
    /\ mode = "automatic"
    /\ target_channel \in Channels
    /\ last_bot_send_time > 0
    /\ last_bot_send_time < LastTickStart
    /\ next_iteration > now

\* The schedule record is unconfigured, or configured for one mode with the
\* other mode's field cleared.
WellFormedRecord ==
    \/ /\ channel_id = NoneInt
       /\ interval_seconds = NoneInt
       /\ mode = None /\ message_content = None /\ ai_prompt = None
    \/ /\ channel_id \in Channels
       /\ interval_seconds >= 3600
       /\ interval_seconds % 3600 = 0
       /\ \/ mode = "manual" /\ message_content \in Messages /\ ai_prompt = None
          \/ mode = "automatic" /\ ai_prompt \in Prompts /\ message_content = None

\* C17: the schedule record is well-formed in every state, and every
\* configuration command with interval_hours >= 1 ends with the whole record
\* set from its own arguments, nothing of the previous configuration left.
C17_WholeRecordReplaced ==
    /\ []WellFormedRecord
    /\ [][(CommandEnds /\ interaction.interval_hours >= 1)
           => /\ mode' = interaction.name
              /\ channel_id' = interaction.channel_id
              /\ interval_seconds' = interaction.interval_hours * 3600
              /\ IF interaction.name = "manual"
                 THEN message_content' = interaction.message /\ ai_prompt' = None
                 ELSE ai_prompt' = interaction.message /\ message_content' = None]_vars

\* C18: a message event changes last_channel_activity_time only when its
\* author is not the bot and not a bot account, a channel is configured and
\* the message is in that channel, and then sets it to the current time;
\* a message by the bot itself or another bot, in another channel, or with
\* no channel configured leaves it unchanged.  Apart from message events
\* only a configuration command changes it.
C18_OnlyHumanActivity ==
    [][/\ message' # message
            => IF /\ message'.author = "human"
                  /\ channel_id # NoneInt
                  /\ message'.channel = channel_id
               THEN last_channel_activity_time' = now
               ELSE UNCHANGED last_channel_activity_time
       /\ (last_channel_activity_time' # last_channel_activity_time
           /\ ~CommandEnds)
            => /\ message'.author = "human"
               /\ channel_id # NoneInt
               /\ message'.channel = channel_id
               /\ last_channel_activity_time' = now]_vars

\* The bot's own message arrived in the tracked channel, later than the
\* recorded activity, and the recorded activity is as it was.
C18_Witness ==
    /\ message.author = "self"
    /\ channel_id # NoneInt
    /\ message.channel = channel_id
    /\ last_channel_activity_time < now

\* C19: a tick that fires takes its channel, its mode and its message or
\* prompt from one state of the configuration, in one step; while the tick
\* is suspended in generation or in the send, no step, of a command or of
\* the tick itself, changes the channel it sends to; the prompt of the
\* running generation call stays the one it was called with, the body
\* becomes what that call returned, and the body of a send in flight does
\* not change.
C19_NoTornSend ==
    [][/\ Fires
            => /\ target_channel' = channel_id
               /\ IF mode = "manual"
                  THEN message_to_send' = message_content /\ pc' = "send"
                  ELSE IF api_key = ""
                  THEN pc' = "send" /\ message_to_send' # message_content
                  ELSE prompt' = ai_prompt /\ pc' = "generate"
       /\ pc \in {"generate", "send", "resume"} => UNCHANGED target_channel
       /\ (pc = "generate" /\ pc' = "generate") => UNCHANGED prompt
       /\ (pc = "generate" /\ pc' = "send") => message_to_send' = returned
       /\ pc = "send" => UNCHANGED message_to_send]_vars

\* A configuration command for another channel succeeded while a tick was
\* suspended in generation; the send in flight goes to the old channel with
\* the text generated for it.
C19_Witness ==
    /\ pc = "send"
    /\ interaction.status = "set"
    /\ target_channel \in Channels
    /\ target_channel # channel_id
    /\ message_to_send = "generated"

\* C20: when a tick resumes from its send and the configuration is no longer
\* the one it fired under (a command for another channel completed while it
\* was suspended), the tick leaves last_bot_send_time at the reset value 0
\* and last_channel_activity_time after it, whatever the send's outcome.
C20_OldSendKeepsReset ==
    [][(pc = "resume" /\ pc' = "sleep"
        /\ target_channel \in Channels /\ target_channel # channel_id)
        => /\ last_bot_send_time' = 0
           /\ last_channel_activity_time' > last_bot_send_time']_vars

====
